---------------------------- MODULE Spec2Model ----------------------------
(***************************************************************************)
(* A model of src/lib/arrays.js: the short-circuiting traversal primitives *)
(* (each_until, each_in_reverse_until), the wrappers each and              *)
(* each_in_reverse, reduce, first / last, any / none, true_for_all,         *)
(* filter, map, uniq, max, sort, and the partial application of the        *)
(* curried operations.                                                     *)
(*                                                                         *)
(* One call of a public operation is run at a time.  A call takes the      *)
(* snapshot and enters the loop; every loop iteration is one step, in      *)
(* which the callback of the caller is invoked and logged.  filter, map,   *)
(* uniq, max and sort are run in one step.                                 *)
(***************************************************************************)
EXTENDS Integers, Sequences, FiniteSets, TLC

(***************************************************************************)
(* Bounds of the model.                                                    *)
(***************************************************************************)
MaxLen == 3

(***************************************************************************)
(* JavaScript values.  k is the kind (typeof, with null and array told     *)
(* apart), n the number or the boolean (1 / 0), f the text of a string or  *)
(* the name of a function, a the elements of an array.                     *)
(***************************************************************************)
JS(k, n, f) == [k |-> k, n |-> n, f |-> f, a |-> <<>>]

undefined == JS("undefined", 0, "")

null == JS("null", 0, "")

Bool(b) == JS("boolean", IF b THEN 1 ELSE 0, "")

Num(i) == JS("number", i, "")

Str(s) == JS("string", 0, s)

Fn(name) == JS("function", 0, name)

Arr(s) == [k |-> "array", n |-> 0, f |-> "", a |-> s]

\* ToBoolean: what `if (v)`, `!v`, `v && w` and `v || w` test.
Truthy(v) ==
  CASE v.k = "undefined" -> FALSE
    [] v.k = "null"      -> FALSE
    [] v.k = "boolean"   -> v.n = 1
    [] v.k = "number"    -> v.n # 0
    [] v.k = "string"    -> v.f # ""
    [] OTHER             -> TRUE

\* Array.isArray(v)
isArray(v) == v.k = "array"

\* arr[i], zero-indexed: undefined past the end.
at(arr, i) == IF i + 1 \in DOMAIN arr THEN arr[i + 1] ELSE undefined

(***************************************************************************)
(* The inputs.                                                             *)
(***************************************************************************)
\* Element values: a falsy number, truthy numbers, false and the empty string.
Elems == {Num(0), Num(1), Bool(FALSE), Str("")}

NumElems == {Num(0), Num(1)}

SeqsOver(S) == UNION {[1..n -> S] : n \in 0..MaxLen}

Seqs == SeqsOver(Elems)

\* items = [1, 2, 3, 4], the fixture of the tests.
TestItems == <<Num(1), Num(2), Num(3), Num(4)>>

NumSeqs == SeqsOver(NumElems) \cup {TestItems}

\* What a visitor may return.
RetVals == {undefined, null, Num(0), Str(""), Bool(TRUE), Bool(FALSE)}

\* The value a mutating callback writes into the caller's array.
Mutated == Num(99)

\* A predicate is a pure function of the item: x => x \in P.
Predicates == SUBSET Elems

VARIABLES
  pc,           \* "idle", "partial", "loop", "done" or "threw"
  op,           \* the public operation that was called
  args,         \* the arguments of the call
  target,       \* the caller's array, which callbacks may mutate
  entry,        \* what the caller's array held when the operation was called
  items,        \* const items = Array.prototype.slice.call(target, 0)
  index,        \* the loop variable
  direction,    \* "each_until" or "each_in_reverse_until"
  calls,        \* the invocations of the caller's callback: [item, index, array]
  last_ret,     \* what the caller's callback returned last
  first_false,  \* index of the first call that returned exactly false, or -1
  accs,         \* the accumulator handed to each reducer invocation
  accumulator,  \* let accumulator, of reduce_using_reducer
  start_index,  \* let start_index, of reduce_using_reducer
  reducer,      \* the reducer reduce_using_reducer folds with
  condition,    \* the predicate of first / last / any / none / true_for_all
  result,       \* let result, of first_with_target
  ret,          \* the value the public operation returned
  results,      \* const results, of sort_with_comparer_and_target: the array
                \* object sort returns, [ref, a]
  deferred,     \* TRUE when the operation was run by calling the callable an
                \* earlier call with the leading arguments had returned
  error         \* the exception it threw, "" when none

vars == <<pc, op, args, target, entry, items, index, direction, calls, last_ret,
          first_false, accs, accumulator, start_index, reducer, condition,
          result, ret, results, deferred, error>>

Init ==
  /\ pc = "idle"
  /\ op = ""
  /\ args = <<>>
  /\ target = <<>>
  /\ entry = <<>>
  /\ items = <<>>
  /\ index = 0
  /\ direction = ""
  /\ calls = <<>>
  /\ last_ret = undefined
  /\ first_false = -1
  /\ accs = <<>>
  /\ accumulator = undefined
  /\ start_index = 0
  /\ reducer = undefined
  /\ condition = {}
  /\ result = null
  /\ ret = undefined
  /\ results = [ref |-> "none", a |-> <<>>]
  /\ deferred = FALSE
  /\ error = ""


(***************************************************************************)
(* The traversal engine: each_until and each_in_reverse_until.             *)
(***************************************************************************)
\* Array.prototype.slice.call(target, 0): a new array with target's elements.
slice(t) == [i \in 1..Len(t) |-> t[i]]

\* A loop that reads the caller's array itself (no slice: items = target).
visited_live(items_, target_) == target_

\* The array the loop reads (items[index], items.length): the snapshot.
visited(items_, target_) == items_

\* let index = 0 / let index = items.length - 1
first_index(dir, n) == IF dir = "each_until" THEN 0 ELSE n - 1

\* index++ / index--
next_index(dir, i) == IF dir = "each_until" THEN i + 1 ELSE i - 1

\* index < items.length / index >= 0
in_range(i, n) == i >= 0 /\ i < n

\* A loop that returns on any falsy value: if (!continue_iteration) return.
stops_on_falsy(continue_iteration) == ~Truthy(continue_iteration)

\* The test on continue_iteration that ends the loop with `return`.
stops(continue_iteration) ==
  /\ continue_iteration # undefined
  /\ continue_iteration # null
  /\ continue_iteration = Bool(FALSE)

\* A wrapper that hands the visitor's value on: (...args) => visitor(...args).
each_wrapper_passthrough(visitor_returned) == visitor_returned

\* _each: the visitor is wrapped in (...args) => { visitor(...args); }.
each_wrapper(visitor_returned) == undefined

\* each = _each(each_until), each_in_reverse = _each(each_in_reverse_until)
direction_of(o) ==
  IF o \in {"each_in_reverse_until", "each_in_reverse"}
  THEN "each_in_reverse_until" ELSE "each_until"

\* What a callback may do to the caller's array while the traversal runs:
\* nothing, push, pop, or overwrite every element (fill).
Mutations(t) ==
  {t}
  \cup (IF Len(t) <= MaxLen THEN {Append(t, Mutated)} ELSE {})
  \cup (IF t # <<>> THEN {SubSeq(t, 1, Len(t) - 1)} ELSE {})
  \cup {[i \in 1..Len(t) |-> Mutated]}

\* Entering each_until / each_in_reverse_until: the snapshot and the loop
\* variable.
Enter(dir, t) ==
  /\ items' = slice(t)
  /\ direction' = dir
  /\ index' = first_index(dir, Len(t))

\* The end of one loop iteration whose callback returned continue_iteration,
\* n being the length the loop condition reads.
Advance(continue_iteration, n) ==
  LET ni == next_index(direction, index) IN
  /\ index' = IF stops(continue_iteration) THEN index ELSE ni
  /\ pc' = IF stops(continue_iteration) \/ ~in_range(ni, n) THEN "done" ELSE "loop"

Finished(continue_iteration, n) ==
  stops(continue_iteration) \/ ~in_range(next_index(direction, index), n)

TraversalOps == {"each_until", "each_in_reverse_until", "each", "each_in_reverse"}

\* each_until(visitor, target), each_in_reverse_until(visitor, target),
\* each(visitor, target), each_in_reverse(visitor, target): up to the loop.
CallTraversal ==
  /\ pc = "idle"
  /\ deferred' = FALSE
  /\ UNCHANGED results
  /\ \E o \in TraversalOps, S \in Seqs :
       /\ op' = o
       /\ args' = <<Fn("visitor"), Arr(S)>>
       /\ target' = S
       /\ entry' = S
       /\ Enter(direction_of(o), S)
       /\ pc' = IF S = <<>> THEN "done" ELSE "loop"
  /\ UNCHANGED <<calls, last_ret, first_false, accs, accumulator, start_index,
                 reducer, condition, result, ret, error>>

\* One iteration of the loop: the visitor is called with (items[index], index,
\* items), returns any value and may mutate the caller's array.
VisitStep ==
  /\ pc = "loop"
  /\ UNCHANGED <<results, deferred>>
  /\ op \in TraversalOps
  /\ \E r \in RetVals, t \in Mutations(target) :
       LET arr == visited(items, target)
           continue_iteration ==
             IF op \in {"each", "each_in_reverse"} THEN each_wrapper(r) ELSE r
       IN /\ calls' = Append(calls, [item |-> at(arr, index), index |-> index,
                                      array |-> arr])
          /\ last_ret' = r
          /\ first_false' =
               IF first_false = -1 /\ r = Bool(FALSE) THEN index ELSE first_false
          /\ target' = t
          /\ Advance(continue_iteration, Len(visited(items, t)))
  /\ UNCHANGED <<op, args, entry, items, direction, accs, accumulator,
                 start_index, reducer, condition, result, ret, error>>

(***************************************************************************)
(* reduce and true_for_all.                                                *)
(***************************************************************************)
\* const operators = ['+', '-', '/', '*']
operators == {Str("+"), Str("-"), Str("/"), Str("*")}

\* The reducers of the callers: (a, b) => a + b, (a, b) => a && b and
\* () => false; the functions reduce_using_operator builds, `accumulator
\* <symbol>= current_value`, for + - *; and the reducer of true_for_all, whose
\* condition's result is handed in as condition_result.
ApplyReducer(fn, acc, item, condition_result) ==
  CASE fn.f \in {"add", "+"} -> Num(acc.n + item.n)
    [] fn.f = "-"            -> Num(acc.n - item.n)
    [] fn.f = "*"            -> Num(acc.n * item.n)
    [] fn.f = "and"          -> IF Truthy(acc) THEN item ELSE acc
    [] fn.f = "ret_false"    -> Bool(FALSE)
    [] fn.f = "true_for_all" -> IF Truthy(acc) THEN condition_result ELSE acc
    [] OTHER                 -> undefined

\* A reducer that evaluates the condition first: condition(...args) && acc.
condition_invoked_always(acc) == TRUE

\* true_for_all's reducer is acc && condition(...args): the condition is
\* evaluated only when acc is truthy.
condition_invoked(acc) == Truthy(acc)

\* A seed test on null instead of undefined: if (initial_value === null).
seeds_when_null(initial_value) == initial_value = null

\* if (initial_value === undefined)
seeds_from_target(initial_value) == initial_value = undefined

\* A callback with an expression body handed to each_until: the loop sees the
\* new accumulator.
reduce_continue_acc(acc) == acc

\* What the callback reduce_using_reducer hands to each gives back to the
\* loop: it has a block body and each wraps it, so undefined.
reduce_continue(acc) == each_wrapper(undefined)

\* The arguments reduce is called with.
ReduceArgs ==
  {<<i, Fn("add"), Arr(S)>> : i \in {undefined, Num(0)}, S \in NumSeqs}
  \cup {<<i, Fn(r), Arr(S)>> :
          i \in {undefined, Bool(TRUE), Bool(FALSE)}, r \in {"and", "ret_false"},
          S \in Seqs}
  \cup {<<Fn("add"), Arr(S)>> : S \in NumSeqs}
  \cup {<<Str(sym), i, Arr(S)>> :
          sym \in {"+", "-", "*"}, i \in {undefined, Num(0)}, S \in NumSeqs}

\* The array among the arguments: the caller's array.
ArrayOf(a) == a[CHOOSE i \in DOMAIN a : isArray(a[i])].a

Throw(e) ==
  /\ pc' = "threw"
  /\ error' = e
  /\ UNCHANGED <<items, direction, index, accumulator, start_index, ret>>

\* reduce_using_reducer(reducer, initial_value, target), up to the loop of
\* each_until.
reduce_using_reducer(red, initial_value, tgt) ==
  /\ reducer' = red
  /\ IF ~isArray(tgt)
     THEN \* target[0] of undefined, or slice called on undefined
          Throw("TypeError")
     ELSE /\ accumulator' =
               IF seeds_from_target(initial_value) THEN at(tgt.a, 0)
               ELSE initial_value
          /\ start_index' = IF seeds_from_target(initial_value) THEN 1 ELSE 0
          /\ Enter("each_until", tgt.a)
          /\ pc' = IF tgt.a = <<>> THEN "done" ELSE "loop"
          /\ ret' = IF tgt.a = <<>> THEN accumulator' ELSE undefined
          /\ error' = ""

\* The parameters reduce's function declares before ...rest (its length).
reduce_arity == 2

\* curry(fn): a call that brings at least fn's declared arity runs fn with
\* every argument given.
curry_invokes(arity, nargs) == nargs >= arity

\* reduce(initial_value_or_symbol, reducer_or_initial_value, ...rest), called
\* with two arguments or more.
CallReduce ==
  /\ pc = "idle"
  /\ deferred' = FALSE
  /\ UNCHANGED results
  /\ \E a \in ReduceArgs :
       /\ curry_invokes(reduce_arity, Len(a))
       /\ LET initial_value_or_symbol == a[1]
              second == a[2]
              rest == SubSeq(a, 3, Len(a))
              \* const target = rest.pop()
              tgt == IF rest = <<>> THEN undefined ELSE rest[Len(rest)]
          IN /\ op' = "reduce"
             /\ args' = a
             /\ target' = ArrayOf(a)
             /\ entry' = ArrayOf(a)
             /\ IF initial_value_or_symbol \in operators
                THEN \* reduce_using_operator(symbol, initial_value, target)
                     reduce_using_reducer(Fn(initial_value_or_symbol.f), second, tgt)
                ELSE reduce_using_reducer(second, initial_value_or_symbol, tgt)
  /\ UNCHANGED <<calls, last_ret, first_false, accs, condition, result>>

\* true_for_all(condition, target) =
\*   reduce(true, (acc, ...args) => acc && condition(...args), target)
CallTrueForAll ==
  /\ pc = "idle"
  /\ deferred' = FALSE
  /\ UNCHANGED results
  /\ \E P \in Predicates, S \in Seqs :
       /\ op' = "true_for_all"
       /\ args' = <<Fn("condition"), Arr(S)>>
       /\ condition' = P
       /\ target' = S
       /\ entry' = S
       /\ reduce_using_reducer(Fn("true_for_all"), Bool(TRUE), Arr(S))
  /\ UNCHANGED <<calls, last_ret, first_false, accs, result>>

\* One iteration of the loop under reduce_using_reducer's callback:
\* if (index >= start_index) accumulator = reducer(accumulator, value, index, array)
ReduceStep ==
  /\ pc = "loop"
  /\ UNCHANGED <<results, deferred>>
  /\ op \in {"reduce", "true_for_all"}
  /\ LET arr == visited(items, target)
         item == at(arr, index)
         invoked == index >= start_index
         user_called ==
           invoked /\ (op = "true_for_all" => condition_invoked(accumulator))
         new_acc ==
           IF invoked
           THEN ApplyReducer(reducer, accumulator, item, Bool(item \in condition))
           ELSE accumulator
     IN \E t \in (IF op = "reduce" /\ user_called THEN Mutations(target)
                  ELSE {target}) :
          /\ calls' = IF user_called
                      THEN Append(calls, [item |-> item, index |-> index,
                                          array |-> arr])
                      ELSE calls
          /\ last_ret' = IF user_called
                         THEN (IF op = "reduce" THEN new_acc
                               ELSE Bool(item \in condition))
                         ELSE last_ret
          /\ accs' = IF invoked THEN Append(accs, accumulator) ELSE accs
          /\ accumulator' = new_acc
          /\ target' = t
          /\ Advance(reduce_continue(new_acc), Len(visited(items, t)))
          /\ ret' = IF Finished(reduce_continue(new_acc), Len(visited(items, t)))
                    THEN new_acc ELSE undefined
  /\ UNCHANGED <<op, args, entry, items, direction, first_false, start_index,
                 reducer, condition, result, error>>

(***************************************************************************)
(* first, last, any and none.                                              *)
(***************************************************************************)
\* condition_or_target[0] || null
first_item_or_null(arr) == IF Truthy(at(arr, 0)) THEN at(arr, 0) ELSE null

\* A visitor that ends with `return match`.
first_visitor_returns_match(match) == Bool(Truthy(match))

\* first_with_target's visitor ends with `return !match`.
first_visitor_returns(match) == Bool(~Truthy(match))

\* any = !!first(condition, target)
any_of(first_result) == Bool(Truthy(first_result))

\* none = !any(condition, target)
none_of(any_result) == Bool(~Truthy(any_result))

\* What the public operation returns once first_with_target has returned res.
find_return(o, res) ==
  CASE o = "any"  -> any_of(res)
    [] o = "none" -> none_of(any_of(res))
    [] OTHER      -> res

\* last = find_first_in_direction(each_in_reverse_until),
\* first = find_first_in_direction(each_until); any and none call first.
find_direction(o) == IF o = "last" THEN "each_in_reverse_until" ELSE "each_until"

\* The arguments first and last are called with: a sequence alone, null, or
\* a predicate and a sequence.
FindArgs ==
  {<<Arr(S)>> : S \in Seqs}
  \cup {<<null>>}
  \cup {<<Fn("condition"), Arr(S)>> : S \in Seqs}

\* The function find_first_in_direction(direction) returns, called with the
\* arguments a by operation o, up to the loop of first_with_target.
find_first_in_direction(o, a) ==
  LET condition_or_target == a[1]
      rest == SubSeq(a, 2, Len(a))
  IN IF isArray(condition_or_target)
     THEN /\ ret' = first_item_or_null(condition_or_target.a)
          /\ pc' = "done"
          /\ UNCHANGED <<items, direction, index, result>>
     ELSE IF condition_or_target = null
     THEN /\ ret' = null
          /\ pc' = "done"
          /\ UNCHANGED <<items, direction, index, result>>
     ELSE \* first_with_target(direction, condition, rest.pop())
          /\ result' = null
          /\ Enter(find_direction(o), rest[Len(rest)].a)
          /\ pc' = IF rest[Len(rest)].a = <<>> THEN "done" ELSE "loop"
          /\ ret' = IF rest[Len(rest)].a = <<>> THEN find_return(o, null)
                    ELSE undefined

\* first(...) and last(...)
CallFind ==
  /\ pc = "idle"
  /\ deferred' = FALSE
  /\ UNCHANGED results
  /\ \E o \in {"first", "last"}, a \in FindArgs, P \in Predicates :
       /\ a[1].k # "function" => P = {}
       /\ op' = o
       /\ args' = a
       /\ condition' = P
       /\ target' = IF a = <<null>> THEN <<>> ELSE ArrayOf(a)
       /\ entry' = IF a = <<null>> THEN <<>> ELSE ArrayOf(a)
       /\ find_first_in_direction(o, a)
  /\ UNCHANGED <<calls, last_ret, first_false, accs, accumulator, start_index,
                 reducer, error>>

\* any(condition, target) and none(condition, target)
CallAny ==
  /\ pc = "idle"
  /\ deferred' = FALSE
  /\ UNCHANGED results
  /\ \E o \in {"any", "none"}, P \in Predicates, S \in Seqs :
       /\ op' = o
       /\ args' = <<Fn("condition"), Arr(S)>>
       /\ condition' = P
       /\ target' = S
       /\ entry' = S
       /\ find_first_in_direction(o, <<Fn("condition"), Arr(S)>>)
  /\ UNCHANGED <<calls, last_ret, first_false, accs, accumulator, start_index,
                 reducer, error>>

\* One iteration of the loop under first_with_target's visitor:
\* const match = condition(...args); if (match) result = args[0]; return !match
FindStep ==
  /\ pc = "loop"
  /\ UNCHANGED <<results, deferred>>
  /\ op \in {"first", "last", "any", "none"}
  /\ LET arr == visited(items, target)
         item == at(arr, index)
         match == Bool(item \in condition)
         new_result == IF Truthy(match) THEN item ELSE result
     IN /\ calls' = Append(calls, [item |-> item, index |-> index, array |-> arr])
        /\ last_ret' = match
        /\ result' = new_result
        /\ Advance(first_visitor_returns(match), Len(arr))
        /\ ret' = IF Finished(first_visitor_returns(match), Len(arr))
                  THEN find_return(op, new_result) ELSE undefined
  /\ UNCHANGED <<op, args, target, entry, items, direction, first_false, accs,
                 accumulator, start_index, reducer, condition, error>>

(***************************************************************************)
(* filter, map, uniq, max and sort.  These run no callback of the caller   *)
(* that the properties observe one call at a time, so each is one step:    *)
(* the fold of reduce is computed as a function.                           *)
(***************************************************************************)
\* ToNumber, for the values of the inputs: false and "" are 0.
ToNumber(v) == IF v.k \in {"number", "boolean"} THEN v.n ELSE 0

\* The mappers of the callers: val => val (uniq's own, for a sequence alone),
\* x => typeof x (a key shared by several elements), x => -x.
apply_mapper(m, v) ==
  CASE m = "identity" -> v
    [] m = "typeof"   -> Str(v.k)
    [] m = "negate"   -> Num(0 - ToNumber(v))
    [] OTHER          -> undefined

\* A search from the end: target.findLastIndex(...), zero-indexed.
find_last_index(arr, m, mapped) ==
  IF \E i \in 1..Len(arr) : apply_mapper(m, arr[i]) = mapped
  THEN (CHOOSE i \in 1..Len(arr) :
          /\ apply_mapper(m, arr[i]) = mapped
          /\ \A j \in (i + 1)..Len(arr) : apply_mapper(m, arr[j]) # mapped) - 1
  ELSE -1

\* target.findIndex(value => mapper(value) === mapped), zero-indexed.
find_index(arr, m, mapped) ==
  IF \E i \in 1..Len(arr) : apply_mapper(m, arr[i]) = mapped
  THEN (CHOOSE i \in 1..Len(arr) :
          /\ apply_mapper(m, arr[i]) = mapped
          /\ \A j \in 1..(i - 1) : apply_mapper(m, arr[j]) # mapped) - 1
  ELSE -1

\* The reducers filter, map and max hand to reduce.  r says which: r.op is
\* "filter" (constraint x => x \in r.P), "uniq" (filter under the constraint
\* of uniq_with_target_and_mapper, with mapper r.m and target r.t), "map"
\* (mapper r.m) or "max" (value_resolver r.m).
internal_reducer(r, acc, val, i) ==
  CASE r.op = "filter" -> IF val \in r.P THEN Append(acc, val) ELSE acc
    [] r.op = "uniq" ->
         IF i = find_index(r.t, r.m, apply_mapper(r.m, val))
         THEN Append(acc, val) ELSE acc
    [] r.op = "map" -> Append(acc, apply_mapper(r.m, val))
    [] r.op = "max" ->
         IF apply_mapper(r.m, val).n > acc.n THEN apply_mapper(r.m, val) ELSE acc
    [] OTHER -> acc

Reducer(o, m, P, t) == [op |-> o, m |-> m, P |-> P, t |-> t]

\* reduce_using_reducer's loop from index i on, over the snapshot arr.
RECURSIVE fold_from(_, _, _, _)
fold_from(r, acc, arr, i) ==
  IF ~in_range(i, Len(arr)) THEN acc
  ELSE fold_from(r, internal_reducer(r, acc, at(arr, i), i), arr, i + 1)

\* reduce(initial_value, reducer, target) with an initial value that is
\* neither undefined nor an operator symbol.
reduce_with(initial_value, r, tgt) == fold_from(r, initial_value, slice(tgt), 0)

\* filter(constraint, target) = reduce([], ..., target)
filter(r, tgt) == reduce_with(<<>>, r, tgt)

\* uniq_with_target_and_mapper(mapper, target)
uniq_with_target_and_mapper(m, tgt) == filter(Reducer("uniq", m, {}, tgt), tgt)

KeyMappers == {"typeof", "negate"}

\* The arguments uniq is called with: a sequence alone, or a key mapper and
\* a sequence.
UniqArgs ==
  {<<Arr(S)>> : S \in Seqs}
  \cup {<<Fn(m), Arr(S)>> : m \in KeyMappers, S \in Seqs}

\* What the caller gets back from a call that runs in one step.
Return(o, a, v) ==
  /\ pc' = "done"
  /\ op' = o
  /\ args' = a
  /\ ret' = v
  /\ UNCHANGED <<items, index, direction, calls, last_ret, first_false, accs,
                 accumulator, start_index, reducer, condition, result, error>>

\* uniq(mapper_or_target, ...args)
CallUniq ==
  /\ pc = "idle"
  /\ deferred' = FALSE
  /\ UNCHANGED results
  /\ \E a \in UniqArgs :
       /\ target' = ArrayOf(a)
       /\ entry' = ArrayOf(a)
       /\ IF Len(a) = 1 /\ isArray(a[1])
          THEN Return("uniq", a, Arr(uniq_with_target_and_mapper("identity", a[1].a)))
          ELSE Return("uniq", a, Arr(uniq_with_target_and_mapper(a[1].f, a[2].a)))

\* Integers of both signs, for max and sort.
IntElems == {Num(0 - 2), Num(0 - 1), Num(1)}

IntSeqs == SeqsOver(IntElems)

ValueResolvers == {"identity", "negate"}

\* max(value_resolver, target) = reduce(0, ..., target)
max(m, tgt) == reduce_with(Num(0), Reducer("max", m, {}, <<>>), tgt)

CallMax ==
  /\ pc = "idle"
  /\ deferred' = FALSE
  /\ UNCHANGED results
  /\ \E m \in ValueResolvers, S \in IntSeqs :
       /\ target' = S
       /\ entry' = S
       /\ Return("max", <<Fn(m), Arr(S)>>, max(m, S))

\* An array object: which object it is and what it holds.  ref is "target"
\* for the caller's array and "new" for one made during the call.
Obj(r, s) == [ref |-> r, a |-> s]

\* The comparers: default_comparer, and (a, b) => b - a of the callers.
compare(c, a, b) ==
  CASE c = "default_comparer" ->
         IF ToNumber(a) < ToNumber(b) THEN -1
         ELSE IF ToNumber(a) > ToNumber(b) THEN 1 ELSE 0
    [] c = "descending" -> ToNumber(b) - ToNumber(a)
    [] OTHER -> 0

Comparers == {"descending"}

\* Array.prototype.sort inserts x into the sorted s after the elements that
\* do not come after it (the sort is stable).
RECURSIVE insert_sorted(_, _, _)
insert_sorted(c, s, x) ==
  IF s = <<>> THEN <<x>>
  ELSE IF compare(c, x, Head(s)) < 0 THEN <<x>> \o s
  ELSE <<Head(s)>> \o insert_sorted(c, Tail(s), x)

\* results.sort(comparer): the elements of s in the order of comparer c.
RECURSIVE array_sort(_, _)
array_sort(c, s) ==
  IF s = <<>> THEN <<>>
  ELSE insert_sorted(c, array_sort(c, SubSeq(s, 1, Len(s) - 1)), s[Len(s)])

\* No copy: results is the array object it was given.
same_object(o) == o

\* target_to_sort.slice(0): a new array object with the same elements.
slice_0(o) == Obj("new", o.a)

\* sort_with_comparer_and_target(comparer, target), target an array object
\* or null: the array object returned, sorted in place after the copy.
sort_with_comparer_and_target(c, t) ==
  LET target_to_sort == IF t = null THEN Obj("new", <<>>) ELSE t
      copy == slice_0(target_to_sort)
  IN  Obj(copy.ref, array_sort(c, copy.a))

\* sort(comparer_or_target, ...args), the caller's array being the object
\* "target".
sort(a) ==
  IF a[1] = null THEN Obj("new", <<>>)
  ELSE IF isArray(a[1])
       THEN sort_with_comparer_and_target("default_comparer", Obj("target", a[1].a))
       ELSE sort_with_comparer_and_target(
              a[1].f, IF a[2] = null THEN null ELSE Obj("target", a[2].a))

\* The arguments sort is called with.
SortArgs ==
  {<<null>>}
  \cup {<<Arr(S)>> : S \in IntSeqs}
  \cup {<<Fn(c), Arr(S)>> : c \in Comparers, S \in IntSeqs}
  \cup {<<Fn(c), null>> : c \in Comparers}

\* The caller's array among the arguments a, empty when there is none.
TargetOf(a) == IF \E i \in DOMAIN a : isArray(a[i]) THEN ArrayOf(a) ELSE <<>>

CallSort ==
  /\ pc = "idle"
  /\ deferred' = FALSE
  /\ \E a \in SortArgs :
       /\ entry' = TargetOf(a)
       /\ results' = sort(a)
       /\ target' = IF results'.ref = "target" THEN results'.a ELSE TargetOf(a)
       /\ Return("sort", a, Arr(results'.a))

\* map(mapper, target) = reduce([], ..., target)
map(m, tgt) == reduce_with(<<>>, Reducer("map", m, {}, <<>>), tgt)

Mappers == {"typeof", "negate"}

\* filter(constraint, target), called with both arguments.
CallFilter ==
  /\ pc = "idle"
  /\ deferred' = FALSE
  /\ UNCHANGED results
  /\ \E P \in Predicates, S \in Seqs :
       /\ target' = S
       /\ entry' = S
       /\ Return("filter", <<Fn("condition"), Arr(S)>>,
                 Arr(filter(Reducer("filter", "", P, <<>>), S)))

\* map(mapper, target), called with both arguments.
CallMap ==
  /\ pc = "idle"
  /\ deferred' = FALSE
  /\ UNCHANGED results
  /\ \E m \in Mappers, S \in Seqs :
       /\ target' = S
       /\ entry' = S
       /\ Return("map", <<Fn(m), Arr(S)>>, Arr(map(m, S)))

(***************************************************************************)
(* Partial application: a call with the leading arguments only, and the    *)
(* later call of what it returned with the sequence.                       *)
(***************************************************************************)
CurriedOps == {"first", "last", "sort", "filter", "map", "reduce"}

\* The leading arguments of operation o: all but the sequence.
LeadingArgs(o) ==
  CASE o \in {"first", "last", "filter"} -> {<<Fn("condition")>>}
    [] o = "sort" -> {<<Fn(c)>> : c \in Comparers}
    [] o = "map" -> {<<Fn(m)>> : m \in Mappers}
    [] o = "reduce" -> {<<Num(0), Fn("add")>>, <<Str("+"), Num(0)>>}

\* The declared arity of the curried function behind operation o, and how
\* many arguments it gets when o is called with a: first and last hand
\* first_with_target the direction before the condition.
arity_of(o) ==
  CASE o \in {"first", "last"} -> 3
    [] o = "reduce" -> reduce_arity
    [] OTHER -> 2

given_to(o, a) == IF o \in {"first", "last"} THEN Len(a) + 1 ELSE Len(a)

\* The callable a curried function returns when it has too few arguments.
curried == Fn("curried")

\* op(leading arguments), without the sequence.
CallPartial ==
  /\ pc = "idle"
  /\ deferred' = FALSE
  /\ \E o \in CurriedOps, P \in Predicates :
     \E a \in LeadingArgs(o) :
       /\ o \notin {"first", "last", "filter"} => P = {}
       /\ op' = o
       /\ args' = a
       /\ condition' = P
       /\ target' = <<>>
       /\ entry' = <<>>
       /\ IF curry_invokes(arity_of(o), given_to(o, a))
          THEN \* reduce's function runs: const target = rest.pop() is undefined
               IF a[1] \in operators
               THEN reduce_using_reducer(Fn(a[1].f), a[2], undefined)
               ELSE reduce_using_reducer(a[2], a[1], undefined)
          ELSE /\ pc' = "partial"
               /\ ret' = curried
               /\ UNCHANGED <<items, index, direction, accumulator, start_index,
                              reducer, error>>
  /\ UNCHANGED <<calls, last_ret, first_false, accs, result, results>>

\* deferred(S): the callable of CallPartial called with the sequence, which
\* runs the curried function with the leading arguments and S.
ApplyPartial ==
  /\ pc = "partial"
  /\ deferred' = TRUE
  /\ \E S \in IF op \in {"sort", "map"} THEN IntSeqs ELSE Seqs :
       /\ args' = Append(args, Arr(S))
       /\ entry' = S
       /\ UNCHANGED <<op, condition, calls, last_ret, first_false, accs,
                      accumulator, start_index, reducer, error>>
       /\ IF op \in {"first", "last"}
          THEN /\ find_first_in_direction(op, args')
               /\ target' = S
               /\ UNCHANGED results
          ELSE /\ pc' = "done"
               /\ UNCHANGED <<items, index, direction, result>>
               /\ results' = IF op = "sort"
                             THEN sort_with_comparer_and_target(
                                    args[1].f, Obj("target", S))
                             ELSE results
               /\ target' = IF results'.ref = "target" THEN results'.a ELSE S
               /\ ret' = CASE op = "sort" -> Arr(results'.a)
                           [] op = "filter" ->
                                Arr(filter(Reducer("filter", "", condition, <<>>), S))
                           [] op = "map" -> Arr(map(args[1].f, S))
                           [] OTHER -> undefined

Next ==
  \/ CallTraversal
  \/ VisitStep
  \/ CallReduce
  \/ CallTrueForAll
  \/ ReduceStep
  \/ CallFind
  \/ CallAny
  \/ FindStep
  \/ CallUniq
  \/ CallMax
  \/ CallSort
  \/ CallFilter
  \/ CallMap
  \/ CallPartial
  \/ ApplyPartial

Spec == Init /\ [][Next]_vars

(***************************************************************************)
(* Properties.                                                             *)
(***************************************************************************)
Min(S) == CHOOSE x \in S : \A y \in S : x <= y

Max(S) == CHOOSE x \in S : \A y \in S : x >= y

ReverseOps == {"each_in_reverse_until", "each_in_reverse", "last"}

\* The index the k-th callback invocation of operation o is expected at, on a
\* sequence of n elements whose traversal starts at index `from`.
ExpectedIndex(o, n, from, k) ==
  IF o \in ReverseOps THEN n - k ELSE from + k - 1

\* The callback invocations so far are the first ones of the scan of the
\* sequence held at call entry, in order, each with (item, index, snapshot).
ScansEntry(from) ==
  \A k \in 1..Len(calls) :
    /\ calls[k].index = ExpectedIndex(op, Len(entry), from, k)
    /\ calls[k].index \in 0..(Len(entry) - 1)
    /\ calls[k].item = entry[calls[k].index + 1]
    /\ calls[k].array = entry

\* C1: each_until calls the visitor on indices 0, 1, 2, ... (and
\* each_in_reverse_until on len-1, ..., 0); the traversal is over right after
\* the first call that returns exactly false, and no other return value
\* (undefined, null, 0, "", true) ends it before the last index.
C1_UntilStopsOnFalseOnly ==
  op \in {"each_until", "each_in_reverse_until"} =>
    /\ pc \in {"loop", "done"}
    /\ \A k \in 1..Len(calls) :
         calls[k].index = ExpectedIndex(op, Len(entry), 0, k)
    /\ (pc = "loop" => first_false = -1 /\ Len(calls) < Len(entry))
    /\ (first_false # -1 =>
          /\ pc = "done"
          /\ last_ret = Bool(FALSE)
          /\ calls[Len(calls)].index = first_false)
    /\ (pc = "done" /\ first_false = -1 => Len(calls) = Len(entry))

\* each_until stopped after the visitor returned false at index 1 of 3.
C1_Witness ==
  /\ op = "each_until"
  /\ pc = "done"
  /\ Len(entry) = 3
  /\ Len(calls) = 2
  /\ first_false = 1

\* C2: each and each_in_reverse call the visitor exactly once on every index
\* (ascending, respectively descending), whatever the visitor returns.
C2_EachVisitsAll ==
  op \in {"each", "each_in_reverse"} =>
    /\ pc \in {"loop", "done"}
    /\ \A k \in 1..Len(calls) :
         calls[k].index = ExpectedIndex(op, Len(entry), 0, k)
    /\ Len(calls) <= Len(entry)
    /\ (pc = "loop" => Len(calls) < Len(entry))
    /\ (pc = "done" => Len(calls) = Len(entry))

\* each_in_reverse went on to all 3 elements although its visitor returned
\* false on its first call.
C2_Witness ==
  /\ op = "each_in_reverse"
  /\ pc = "done"
  /\ first_false = 2
  /\ Len(calls) = 3

\* C3: whatever the callbacks do to the caller's array during the traversal,
\* every callback invocation of each_until, each_in_reverse_until, each,
\* each_in_reverse and reduce gets the item, the index and the array that the
\* sequence held at call entry, in scan order, and a traversal that is not
\* stopped covers all of them.
C3_SnapshotIsolation ==
  op \in TraversalOps \cup {"reduce"} =>
    /\ ScansEntry(start_index)
    /\ items = IF pc = "threw" THEN <<>> ELSE entry
    /\ (pc = "done" /\ first_false = -1 =>
          Len(calls) = IF entry = <<>> THEN 0 ELSE Len(entry) - start_index)

\* each_in_reverse_until visited all 3 elements of the sequence it was called
\* with while its visitor popped the caller's array down to 1 element.
C3_Witness ==
  /\ op = "each_in_reverse_until"
  /\ pc = "done"
  /\ Len(entry) = 3
  /\ Len(calls) = 3
  /\ Len(target) = 1

\* The reducer invocations so far form a left fold of the reducer fn that
\* starts from seed: the first gets seed, each later one the result of the
\* one before, and the running accumulator is the result of the last.
FoldsFrom(fn, seed) ==
  /\ Len(accs) = Len(calls)
  /\ (accs # <<>> => accs[1] = seed)
  /\ \A k \in 1..(Len(accs) - 1) :
       accs[k + 1] = ApplyReducer(fn, accs[k], calls[k].item, undefined)
  /\ accumulator =
       IF accs = <<>> THEN seed
       ELSE ApplyReducer(fn, accs[Len(accs)], calls[Len(calls)].item, undefined)

\* reduce(initial, reducer, S) with an initial value that is neither
\* undefined nor an operator symbol.
ExplicitReduce ==
  /\ op = "reduce"
  /\ Len(args) = 3
  /\ args[1] # undefined
  /\ args[1] \notin operators

\* C4: reduce(initial, reducer, S) with an explicit initial value calls the
\* reducer once per index in ascending order with (accumulator, item, index,
\* snapshot), each result being the accumulator of the next call; it never
\* stops early, also when the reducer returns false, and returns the final
\* accumulator (initial itself when S is empty); reduce(0, add, [1,2,3,4]) = 10.
C4_ExplicitReduceIsLeftFold ==
  ExplicitReduce =>
    /\ pc \in {"loop", "done"}
    /\ ScansEntry(0)
    /\ FoldsFrom(args[2], args[1])
    /\ (pc = "loop" => Len(calls) < Len(entry))
    /\ (pc = "done" => Len(calls) = Len(entry) /\ ret = accumulator)
    /\ (pc = "done" /\ entry = <<>> => ret = args[1])
    /\ (pc = "done" /\ args = <<Num(0), Fn("add"), Arr(TestItems)>>
          => ret = Num(10))

\* reduce(true, () => false, S) ran its reducer on all 3 elements of S.
C4_Witness ==
  /\ ExplicitReduce
  /\ pc = "done"
  /\ args[1] = Bool(TRUE)
  /\ args[2] = Fn("ret_false")
  /\ Len(calls) = 3
  /\ ret = Bool(FALSE)

\* C5, as claimed: the two-argument call reduce(reducer, S) on a non-empty S
\* seeds the accumulator with S[0] and folds the reducer over indices
\* 1..len-1, so reduce(add, [1,2,3,4]) returns 10.
C5_TwoArgumentReduceSeeds ==
  (op = "reduce" /\ Len(args) = 2 /\ entry # <<>>) =>
    /\ pc \in {"loop", "done"}
    /\ ScansEntry(1)
    /\ FoldsFrom(args[1], entry[1])
    /\ (pc = "done" => Len(calls) = Len(entry) - 1 /\ ret = accumulator)
    /\ (pc = "done" /\ args = <<Fn("add"), Arr(TestItems)>> => ret = Num(10))

\* C5, amended: reduce(undefined, reducer, S) on a non-empty S seeds the
\* accumulator with S[0] and folds the reducer over indices 1..len-1, so
\* reduce(undefined, add, [1,2,3,4]) returns 10.
C5_UndefinedInitialSeeds ==
  (op = "reduce" /\ Len(args) = 3 /\ args[1] = undefined /\ entry # <<>>) =>
    /\ pc \in {"loop", "done"}
    /\ start_index = 1
    /\ ScansEntry(1)
    /\ FoldsFrom(args[2], entry[1])
    /\ Len(calls) <= Len(entry) - 1
    /\ (pc = "done" => Len(calls) = Len(entry) - 1 /\ ret = accumulator)
    /\ (pc = "done" /\ args = <<undefined, Fn("add"), Arr(TestItems)>>
          => ret = Num(10))

\* reduce(undefined, add, [1,2,3,4]) returned 10 after 3 reducer calls.
C5_Witness ==
  /\ op = "reduce"
  /\ pc = "done"
  /\ args = <<undefined, Fn("add"), Arr(TestItems)>>
  /\ Len(calls) = 3
  /\ calls[1].index = 1
  /\ ret = Num(10)

\* The initial value reduce_using_reducer is handed by the call.
InitialOf(a) == IF a[1] \in operators THEN a[2] ELSE a[1]

\* C6: reduce with initial value undefined on an empty sequence signals an
\* error; it never returns normally.
C6_EmptyReduceSignalsError ==
  (op = "reduce" /\ Len(args) = 3 /\ InitialOf(args) = undefined
     /\ entry = <<>>) => pc # "done"

\* The first index (from 1) at which the predicate does not hold, or n.
LastPredicateCall(n) ==
  IF \E i \in 1..n : entry[i] \notin condition
  THEN Min({i \in 1..n : entry[i] \notin condition}) ELSE n

\* C7, as claimed: true_for_all invokes the predicate exactly once for every
\* element of S, also after the first one for which it returned false, and
\* returns true exactly when the predicate held for every element.
C7_PredicateCalledOnEveryElement ==
  (op = "true_for_all" /\ pc = "done") =>
    /\ ScansEntry(0)
    /\ Len(calls) = Len(entry)
    /\ ret = Bool(\A i \in 1..Len(entry) : entry[i] \in condition)

\* C7, amended: true_for_all runs its reducer on every element of S (the
\* traversal does not stop), but invokes the predicate only on the elements
\* up to and including the first one for which it returns false, once each;
\* it returns true exactly when the predicate held for every element.
C7_PredicateCalledUntilFirstFalse ==
  op = "true_for_all" =>
    /\ pc \in {"loop", "done"}
    /\ ScansEntry(0)
    /\ Len(calls) <= LastPredicateCall(Len(entry))
    /\ (pc = "loop" => Len(accs) < Len(entry))
    /\ (pc = "done" =>
          /\ Len(accs) = Len(entry)
          /\ Len(calls) = LastPredicateCall(Len(entry))
          /\ ret = Bool(\A i \in 1..Len(entry) : entry[i] \in condition))

\* true_for_all ran its reducer on 3 elements, invoked the predicate on the
\* first only, and returned false.
C7_Witness ==
  /\ op = "true_for_all"
  /\ pc = "done"
  /\ Len(entry) = 3
  /\ Len(accs) = 3
  /\ Len(calls) = 1
  /\ ret = Bool(FALSE)

\* The indices (from 1) of the elements that satisfy the predicate.
Matches == {i \in 1..Len(entry) : entry[i] \in condition}

\* The index (from 1) of the element first / last is to return.
Hit == IF op = "last" THEN Max(Matches) ELSE Min(Matches)

\* The number of predicate invocations up to and including that element.
CallsUpToHit ==
  IF Matches = {} THEN Len(entry)
  ELSE IF op = "last" THEN Len(entry) - Hit + 1 ELSE Hit

\* C8: first(predicate, S) returns the element of lowest index that satisfies
\* the predicate, last(predicate, S) the one of highest index; the predicate
\* is invoked on the elements scanned up to and including that match and on
\* none beyond it; without a match it is invoked on all elements and the
\* result is null.
C8_FindStopsAtMatch ==
  (op \in {"first", "last"} /\ Len(args) = 2) =>
    /\ pc \in {"loop", "done"}
    /\ ScansEntry(0)
    /\ Len(calls) <= CallsUpToHit
    /\ (pc = "loop" => Len(calls) < CallsUpToHit)
    /\ (pc = "done" =>
          /\ Len(calls) = CallsUpToHit
          /\ ret = IF Matches = {} THEN null ELSE entry[Hit])

\* last(predicate, S) returned the middle one of 3 elements after 2
\* predicate invocations.
C8_Witness ==
  /\ op = "last"
  /\ pc = "done"
  /\ Len(args) = 2
  /\ Len(entry) = 3
  /\ Matches # {}
  /\ Hit = 2
  /\ Len(calls) = 2
  /\ ret = entry[2]

\* C9: first(S) returns the element at index 0 of every non-empty S, whatever
\* its value, and null when S is empty.
C9_FirstOfSequence ==
  (op = "first" /\ Len(args) = 1 /\ isArray(args[1]) /\ pc = "done") =>
    ret = IF entry = <<>> THEN null ELSE entry[1]

\* C10: any(P, S) equals (first(P, S) !== null): it is true whenever first
\* finds a matching element; none(P, S) is its negation.
C10_AnyIsFirstNotNull ==
  (op \in {"any", "none"} /\ pc = "done") =>
    /\ (Matches # {} => result # null)
    /\ ret = IF op = "any" THEN Bool(result # null) ELSE Bool(result = null)

\* C15: last(S), called with a sequence alone, returns the last element of S
\* (the element at index len-1), and null when S is empty.
C15_LastOfSequence ==
  (op = "last" /\ Len(args) = 1 /\ isArray(args[1]) /\ pc = "done") =>
    ret = IF entry = <<>> THEN null ELSE entry[Len(entry)]

\* The key uniq compares the elements by: the element itself for uniq(S),
\* mapper(element) for uniq(mapper, S).
KeyOf(v) == IF Len(args) = 1 THEN v ELSE apply_mapper(args[1].f, v)

\* The indices (from 1) of the elements of s whose key no earlier element has.
FirstOccurrences(s) ==
  {i \in 1..Len(s) : \A j \in 1..(i - 1) : KeyOf(s[j]) # KeyOf(s[i])}

\* The elements of s at the indices in I, in the order of s.
Pick(s, I) ==
  [k \in 1..Cardinality(I) |->
     s[CHOOSE i \in I : Cardinality({j \in I : j <= i}) = k]]

\* C11: uniq(S) and uniq(mapper, S) return, in original order, exactly the
\* elements whose key no element of lower index has, one per distinct key;
\* uniq of the result is the result, and S is left as it was.
C11_UniqKeepsFirstOccurrences ==
  (op = "uniq" /\ pc = "done") =>
    /\ isArray(ret)
    /\ ret.a = Pick(entry, FirstOccurrences(entry))
    /\ \A i, j \in 1..Len(ret.a) : i # j => KeyOf(ret.a[i]) # KeyOf(ret.a[j])
    /\ {KeyOf(ret.a[i]) : i \in 1..Len(ret.a)}
         = {KeyOf(entry[i]) : i \in 1..Len(entry)}
    /\ uniq_with_target_and_mapper(
         IF Len(args) = 1 THEN "identity" ELSE args[1].f, ret.a) = ret.a
    /\ target = entry

\* uniq(x => typeof x, S) kept the first and the third of 3 elements.
C11_Witness ==
  /\ op = "uniq"
  /\ pc = "done"
  /\ Len(args) = 2
  /\ args[1] = Fn("typeof")
  /\ Len(entry) = 3
  /\ ret.a = <<entry[1], entry[3]>>
  /\ KeyOf(entry[2]) = KeyOf(entry[1])

\* The values value_resolver gives for the elements of s.
Resolved(s) == {apply_mapper(args[1].f, s[i]).n : i \in 1..Len(s)}

\* C14: max(value_resolver, S) returns the greatest resolved value of the
\* elements of S when S is not empty, also when all of them are negative,
\* and 0 when S is empty.
C14_MaxIsGreatestResolvedValue ==
  (op = "max" /\ pc = "done") =>
    ret = IF entry = <<>> THEN Num(0) ELSE Num(Max(Resolved(entry)))

\* The comparer of the sort call: default_comparer when none was given.
ComparerOf == IF Len(args) = 1 THEN "default_comparer" ELSE args[1].f

\* How many times x occurs in s.
Count(s, x) == Cardinality({i \in 1..Len(s) : s[i] = x})

\* C12: sort(S) and sort(comparer, S) leave S as it was and return a new
\* array object, different from S, holding a permutation of S in the order
\* of the comparer (ascending without one); for the empty sequence too.
C12_SortReturnsNewSortedPermutation ==
  (op = "sort" /\ pc = "done" /\ isArray(args[Len(args)])) =>
    /\ target = entry
    /\ results.ref = "new"
    /\ ret = Arr(results.a)
    /\ Len(ret.a) = Len(entry)
    /\ \A x \in IntElems : Count(ret.a, x) = Count(entry, x)
    /\ \A i, j \in 1..Len(ret.a) :
         i < j => compare(ComparerOf, ret.a[i], ret.a[j]) <= 0

\* sort(S) of a sequence of 3 that was not in ascending order.
C12_Witness ==
  /\ op = "sort"
  /\ pc = "done"
  /\ Len(args) = 1
  /\ Len(entry) = 3
  /\ ToNumber(entry[1]) > ToNumber(entry[3])
  /\ ret.a # entry

\* sort((a, b) => b - a, []) returned a new empty array.
SortOfEmptyReached ==
  /\ op = "sort"
  /\ pc = "done"
  /\ Len(args) = 2
  /\ args[2] = Arr(<<>>)
  /\ results = Obj("new", <<>>)

\* The arguments hold no sequence yet: a call with the leading arguments.
LeadingOnly == args # <<>> /\ \A i \in DOMAIN args : args[i].k \notin {"array", "null"}

\* What the call with all the arguments at once returns.
DirectResult ==
  CASE op \in {"first", "last"} -> IF Matches = {} THEN null ELSE entry[Hit]
    [] op = "sort" -> Arr(array_sort(args[1].f, entry))
    [] op = "filter" -> Arr(SelectSeq(entry, LAMBDA x : x \in condition))
    [] op = "map" -> Arr([i \in 1..Len(entry) |-> apply_mapper(args[1].f, entry[i])])
    [] OTHER -> undefined

\* first(P)(S), last(P)(S), sort(C)(S), filter(P)(S) and map(M)(S) return what
\* the call with all the arguments returns, and the call with the leading
\* arguments runs nothing.
DeferredEqualsDirect ==
  /\ (pc = "partial" =>
        LeadingOnly /\ ret = curried /\ calls = <<>> /\ error = "")
  /\ (deferred /\ pc = "done" => ret = DirectResult /\ target = entry)

\* C13: a call of first, last, sort, filter, map or reduce with the leading
\* arguments only returns a callable and runs nothing, and calling that with
\* the sequence returns what the call with all the arguments returns.
C13_PartialApplication ==
  /\ (op \in CurriedOps /\ LeadingOnly =>
        pc = "partial" /\ ret = curried /\ calls = <<>> /\ error = "")
  /\ (deferred /\ pc = "done" => ret = DirectResult /\ target = entry)

\* sort((a, b) => b - a)(S) returned S of 3 elements in another order.
DeferredSortReached ==
  /\ deferred
  /\ pc = "done"
  /\ op = "sort"
  /\ Len(entry) = 3
  /\ ret.a # entry

=============================================================================
